---- MODULE Spec2Model ----
(***************************************************************************)
(* Dynamic data-flow analyzer of projection-boxes (src/utils/dataFlow.ts,  *)
(* the embedded dyn_flow.py): the static LineVarCollector, the Analyzer's  *)
(* two-tier dependency stores, the assignment propagation and the line     *)
(* tracer, run under a small model of the host interpreter that delivers   *)
(* the trace events of the analysed program, and the driver that builds    *)
(* the Analyzer, runs it and hands the record list to the caller.          *)
(***************************************************************************)
EXTENDS Integers, Sequences, FiniteSets, TLC

\* ------------------------------------------------------------------ bounds
\* total number of line events of the analysed source delivered in one run
MaxSteps == 7
\* number of distinct frame identities id(frame) the host hands out to
\* function frames; an identity is free again once its frame has ended
MaxFrameIds == 2
\* number of events of foreign files (runpy, libraries) delivered in one run
MaxForeign == 1
\* number of line events whose handling raises inside the hook in one run
MaxFaults == 1

\* ------------------------------------------------------- names and the AST
\* keys of frame.f_builtins that the analysed programs mention
Builtins == {"len", "print", "sum"}

\* One statement node of the parsed tree, reduced to the Name nodes the
\* collector looks at: tstore = Name(ctx=Store) in the target(s), tload =
\* Name(ctx=Load) in the target(s) (subscript bases), value = Name(ctx=Load)
\* in value / iter / context_expr, ann = Name(ctx=Load) in the annotation or
\* anywhere else in the statement, hasValue = node.value is not None.
Node(t, ts, tl, v, an, hv) ==
  [type |-> t, tstore |-> ts, tload |-> tl, value |-> v, ann |-> an, hasValue |-> hv]
Assign(ts, v)        == Node("Assign", ts, {}, v, {}, TRUE)
AnnAssign(ts, an, v) == Node("AnnAssign", ts, {}, v, an, TRUE)
AnnDecl(ts, an)      == Node("AnnAssign", ts, {}, {}, an, FALSE)
AugAssign(ts, v)     == Node("AugAssign", ts, {}, v, {}, TRUE)
For(ts, v)           == Node("For", ts, {}, v, {}, TRUE)
With(ts, v)          == Node("With", ts, {}, v, {}, TRUE)
Expr(v)              == Node("Expr", {}, {}, {}, v, FALSE)
FunctionDef          == Node("FunctionDef", {}, {}, {}, {}, FALSE)

\* ------------------------------------------------------ LineVarCollector
\* names the construct-specific visitor adds to assigned_by_line
NodeAssignedSpecific(n) ==
  CASE n.type = "Assign"    -> n.tstore
    [] n.type = "AnnAssign" -> IF n.hasValue THEN n.tstore ELSE {}
    [] n.type = "AugAssign" -> n.tstore
    [] n.type = "For"       -> n.tstore
    [] n.type = "With"      -> n.tstore
    [] OTHER                -> {}

\* visit_Assign without its rhs_by_line update
NodeRhs_NoAssign(n) ==
  CASE n.type = "AnnAssign" -> IF n.hasValue THEN n.value ELSE {}
    [] n.type = "AugAssign" -> n.value \cup n.tstore \cup n.tload
    [] n.type = "For"       -> n.value
    [] n.type = "With"      -> n.value
    [] OTHER                -> {}

\* visit_For without its rhs_by_line update
NodeRhs_NoFor(n) ==
  CASE n.type = "Assign"    -> n.value
    [] n.type = "AnnAssign" -> IF n.hasValue THEN n.value ELSE {}
    [] n.type = "AugAssign" -> n.value \cup n.tstore \cup n.tload
    [] n.type = "With"      -> n.value
    [] OTHER                -> {}

\* visit_AnnAssign that scans the annotation like the value
NodeRhs_AnnScanned(n) ==
  CASE n.type = "Assign"    -> n.value
    [] n.type = "AnnAssign" -> IF n.hasValue THEN n.value \cup n.ann ELSE {}
    [] n.type = "AugAssign" -> n.value \cup n.tstore \cup n.tload
    [] n.type = "For"       -> n.value
    [] n.type = "With"      -> n.value
    [] OTHER                -> {}

\* visit_AugAssign that adds the names read in the value only
NodeRhs_AugValueOnly(n) ==
  CASE n.type = "Assign"    -> n.value
    [] n.type = "AnnAssign" -> IF n.hasValue THEN n.value ELSE {}
    [] n.type = "AugAssign" -> n.value
    [] n.type = "For"       -> n.value
    [] n.type = "With"      -> n.value
    [] OTHER                -> {}

\* names the construct-specific visitor adds to rhs_by_line
NodeRhs(n) ==
  CASE n.type = "Assign"    -> n.value
    [] n.type = "AnnAssign" -> IF n.hasValue THEN n.value ELSE {}
    [] n.type = "AugAssign" -> n.value \cup n.tstore \cup n.tload
    [] n.type = "For"       -> n.value
    [] n.type = "With"      -> n.value
    [] OTHER                -> {}

\* visit_Name, reached through generic_visit from every statement
NodeNameLoad(n)  == n.value \cup n.tload \cup n.ann
NodeNameStore(n) == n.tstore

NodeAssigned(n) == NodeAssignedSpecific(n) \cup NodeNameStore(n)
NodeUsed(n)     == NodeNameLoad(n)

\* the statements on line record rec
NodesOf(rec) == {rec.ast[i] : i \in 1..Len(rec.ast)}

\* a dict without keys, and dict.get(var, set())
EmptyStore == [k \in {} |-> {}]
Get(store, var) == IF var \in DOMAIN store THEN store[var] ELSE {}

\* the statement makes the visitor create the line's key in used_by_line,
\* assigned_by_line, rhs_by_line (a defaultdict creates the key on `|=` and
\* on .add, also when nothing is added)
NodeKeyUsed(n)     == NodeUsed(n) # {}
NodeKeyAssigned(n) ==
  \/ NodeAssigned(n) # {}
  \/ n.type \in {"AugAssign", "For"}
  \/ n.type = "AnnAssign" /\ n.hasValue
NodeKeyRhs(n) ==
  \/ n.type \in {"Assign", "AugAssign", "For", "With"}
  \/ n.type = "AnnAssign" /\ n.hasValue

\* finalize() that copies the used names only
finalize_UsedOnly(used, assigned) ==
  [l \in DOMAIN used \cup DOMAIN assigned |-> Get(used, l)]

\* finalize(): all_vars_by_line
finalize(used, assigned) ==
  [l \in DOMAIN used \cup DOMAIN assigned |-> Get(used, l) \cup Get(assigned, l)]

\* the four per-line tables after collector.visit(tree) and finalize(), for
\* the lines `lines` of a program
EmptyTables ==
  [used |-> EmptyStore, assigned |-> EmptyStore, rhs |-> EmptyStore,
   all |-> EmptyStore]
Collect(lines) ==
  LET nos      == 1..Len(lines)
      used     == [l \in {k \in nos : \E n \in NodesOf(lines[k]) : NodeKeyUsed(n)} |->
                     UNION {NodeUsed(n) : n \in NodesOf(lines[l])}]
      assigned == [l \in {k \in nos : \E n \in NodesOf(lines[k]) : NodeKeyAssigned(n)} |->
                     UNION {NodeAssigned(n) : n \in NodesOf(lines[l])}]
      rhs      == [l \in {k \in nos : \E n \in NodesOf(lines[k]) : NodeKeyRhs(n)} |->
                     UNION {NodeRhs(n) : n \in NodesOf(lines[l])}]
  IN  [used |-> used, assigned |-> assigned, rhs |-> rhs,
       all |-> finalize(used, assigned)]


\* --------------------------------------------------- the analysed programs
\* One source line: its statements (ast), the code object it belongs to
\* ("module" or a function name), the lines control may reach next (0 = the
\* end of the code object), the function a call on the line invokes ("" =
\* none), the names bound by def statements on the line, and for a for-header
\* the number of items its iterable yields (NotFor = not a for-header, AnyLen =
\* decided by data the model does not track) and the first line of its body.
NotFor == -1
AnyLen == -2
L(ast, co, next) ==
  [ast |-> ast, code |-> co, next |-> next, call |-> "", defs |-> {},
   iters |-> NotFor, body |-> 0]
Calling(l, fn)      == [l EXCEPT !.call = fn]
Defining(l, fn)     == [l EXCEPT !.defs = {fn}]
Looping(l, n, body) == [l EXCEPT !.iters = n, !.body = body]
Fn(name, params, globals, entry) ==
  [name |-> name, params |-> params, globals |-> globals, entry |-> entry]

\* Scenario A:   a = 1 / b = a / c = b + a
ProgA ==
  [lines |-> << L(<<Assign({"a"}, {})>>, "module", {2}),
                L(<<Assign({"b"}, {"a"})>>, "module", {3}),
                L(<<Assign({"c"}, {"a", "b"})>>, "module", {0}) >>,
   funcs |-> {}]

\* Scenario B:   a = [1, 2] / for x in a: / y = x
ProgB ==
  [lines |-> << L(<<Assign({"a"}, {})>>, "module", {2}),
                Looping(L(<<For({"x"}, {"a"})>>, "module", {0}), 2, 3),
                L(<<Assign({"y"}, {"x"})>>, "module", {2}) >>,
   funcs |-> {}]

\* Accumulation with branches taken in any order:
\*   1 s = 0 / 2 x = s / 3 s = s + x / 4 x, y = len(s), s / 5 s += x /
\*   6 print(x)
ProgS ==
  [lines |-> << L(<<Assign({"s"}, {})>>, "module", {2, 3, 4, 5, 6, 0}),
                L(<<Assign({"x"}, {"s"})>>, "module", {1, 3, 4, 5, 6, 0}),
                L(<<Assign({"s"}, {"s", "x"})>>, "module", {1, 2, 3, 4, 5, 6, 0}),
                L(<<Assign({"x", "y"}, {"len", "s"})>>, "module", {1, 3, 5, 6, 0}),
                L(<<AugAssign({"s"}, {"x"})>>, "module", {1, 2, 5, 6, 0}),
                L(<<Expr({"print", "x"})>>, "module", {1, 3, 0}) >>,
   funcs |-> {}]

\* A function whose parameter shadows a module-level name, called repeatedly:
\*   1 def f(v):
\*   2     w = v
\*   3     v = a
\*   4 a = 1
\*   5 v = a
\*   6 f(a)
\*   7 w = v
ProgF ==
  [lines |-> << Defining(L(<<FunctionDef>>, "module", {4}), "f"),
                L(<<Assign({"w"}, {"v"})>>, "f", {3, 0}),
                L(<<Assign({"v"}, {"a"})>>, "f", {2, 0}),
                L(<<Assign({"a"}, {})>>, "module", {5, 6}),
                L(<<Assign({"v"}, {"a"})>>, "module", {6}),
                Calling(L(<<Expr({"f", "a"})>>, "module", {6, 7, 0}), "f"),
                L(<<Assign({"w"}, {"v"})>>, "module", {6, 0}) >>,
   funcs |-> {Fn("f", {"v"}, {}, 2)}]

\* A function that assigns a name it declares global:
\*   1 def g():
\*         global v
\*   2     w = v
\*   3     v = 1
\*   4 a = 1
\*   5 v = a
\*   6 g()
\*   7 w = v
ProgG ==
  [lines |-> << Defining(L(<<FunctionDef>>, "module", {4}), "g"),
                L(<<Assign({"w"}, {"v"})>>, "g", {3, 0}),
                L(<<Assign({"v"}, {})>>, "g", {2, 0}),
                L(<<Assign({"a"}, {})>>, "module", {5}),
                L(<<Assign({"v"}, {"a"})>>, "module", {6, 7}),
                Calling(L(<<Expr({"g"})>>, "module", {6, 7, 0}), "g"),
                L(<<Assign({"w"}, {"v"})>>, "module", {6, 0}) >>,
   funcs |-> {Fn("g", {}, {"v"}, 2)}]

\* A variable named like a built-in, then a read of an unbound name:
\*   1 a = 1 / 2 len = a / 3 b = len / 4 c = y
ProgL ==
  [lines |-> << L(<<Assign({"a"}, {})>>, "module", {2}),
                L(<<Assign({"len"}, {"a"})>>, "module", {3}),
                L(<<Assign({"b"}, {"len"})>>, "module", {4}),
                L(<<Assign({"c"}, {"y"})>>, "module", {0}) >>,
   funcs |-> {}]

\* Annotated assignments whose annotation is a variable of the program:
\*   1 a = 1 / 2 T = a / 3 x: T = a / 4 x: T / 5 y = x
ProgT ==
  [lines |-> << L(<<Assign({"a"}, {})>>, "module", {2}),
                L(<<Assign({"T"}, {"a"})>>, "module", {3}),
                L(<<AnnAssign({"x"}, {"T"}, {"a"})>>, "module", {4}),
                L(<<AnnDecl({"x"}, {"T"})>>, "module", {5}),
                L(<<Assign({"y"}, {"x"})>>, "module", {0}) >>,
   funcs |-> {}]

\* A function called twice in a row:
\*   1 def f(v):
\*   2     w = v
\*   3     v = w
\*   4 f(1)
\*   5 f(2)
ProgD ==
  [lines |-> << Defining(L(<<FunctionDef>>, "module", {4}), "f"),
                L(<<Assign({"w"}, {"v"})>>, "f", {3}),
                L(<<Assign({"v"}, {"w"})>>, "f", {0}),
                Calling(L(<<Expr({"f"})>>, "module", {5}), "f"),
                Calling(L(<<Expr({"f"})>>, "module", {0}), "f") >>,
   funcs |-> {Fn("f", {"v"}, {}, 2)}]

\* A function without parameters whose first line is a loop header:
\*   1 g = [1]
\*   2 def f():
\*   3     for x in g:
\*   4         y = x
\*   5 f()
ProgV ==
  [lines |-> << L(<<Assign({"g"}, {})>>, "module", {2}),
                Defining(L(<<FunctionDef>>, "module", {5}), "f"),
                Looping(L(<<For({"x"}, {"g"})>>, "f", {0}), 1, 4),
                L(<<Assign({"y"}, {"x"})>>, "f", {3}),
                Calling(L(<<Expr({"f"})>>, "module", {0}), "f") >>,
   funcs |-> {Fn("f", {}, {}, 3)}]

\* A text that is not a Python program:   a = = 1
ProgX == [lines |-> << >>, funcs |-> {}]

ProgIds == {"A", "B", "S", "F", "G", "L", "T", "D", "X"}
Prog(p) ==
  CASE p = "A" -> ProgA
    [] p = "B" -> ProgB
    [] p = "S" -> ProgS
    [] p = "F" -> ProgF
    [] p = "G" -> ProgG
    [] p = "L" -> ProgL
    [] p = "T" -> ProgT
    [] p = "D" -> ProgD
    [] p = "X" -> ProgX
    [] p = "V" -> ProgV
\* ast.parse(self.source) raises SyntaxError
ParseFails(p) == p = "X"
NoKey == [key |-> "", target |-> ""]
NoCall == [id |-> 0, code |-> "", ok |-> FALSE, boxes |-> "", stdout |-> ""]
\* globalThis.__pyodidePromise before the first ensurePyodide()
NoPromise == [id |-> 0, state |-> "unset"]
\* the text the editor starts with (constants.ts)
SAMPLE == "A"
\* the programs whose control flow is fixed by their text alone
Deterministic == {"A", "B", "L", "T", "D", "X"}

VARIABLES
  prog,             \* the source text handed to Analyzer(temp_file)
  collector,        \* the collector's used_by_line, assigned_by_line,
                    \* rhs_by_line and all_vars_by_line, which the Analyzer
                    \* keeps as its own tables
  records,          \* self.records
  line_exec_count,  \* self.line_exec_count
  frame_deps,       \* self.frame_deps, keyed by id(frame)
  global_deps,      \* self.global_deps
  stack,            \* host: the frames of the analysed program, innermost last
  gbound,           \* host: names bound in the module namespace (f_globals)
  ev,               \* host: the trace event delivered last or pending
  pending,          \* host: ev has not been handed to the tracer yet
  hpc,              \* host: what the interpreter does after the event
  phase,            \* "new", "failed" (no Analyzer), "ready", "running",
                    \* "done" (normal end of the program) or "raised"
  steps,            \* line events of the analysed source delivered so far
  nforeign,         \* foreign events delivered so far
  literal,          \* history: the variables <<scope, name>> whose latest
                    \* assigning visit had an empty rhs set
  tracing,          \* host: self.tracer is the installed trace function
  outcome,          \* what the caller of runDataFlowAnalysis has received
  first,            \* the outcome of the previous analysis of the same text
  nfaults,          \* line events whose handling raised inside the hook
  trace_data,       \* value tracer: the rows captured so far, each with the
                    \* number of the visit of its line that produced it
  visits,           \* host: line events delivered so far, per line
  fallback,         \* value tracer: the program is being executed again
  code,             \* page: the text in the editor
  lastExecutedCode, \* page: the text of the latest successful run
  status,           \* page: "idle", "running", "ok", "error" or "modified"
  error,            \* page: the error message shown, "" for null
  boxes,            \* page: the text whose rows the boxes show, "" for none
  view,             \* page: "full", "scoped" or "dataflow"
  dataFlowResults,  \* page: the record list the boxes take dependencies from
  dataFlowLoading,  \* page: the "(analyzing...)" flag
  runs,             \* page: the texts of the executions not yet returned
  analyses,         \* page: the texts of the analyses not yet settled
  keyed,            \* history: the key and the target of the keydown event
                    \* the latest page step handled, NoKey for other steps
  stdout,           \* page: the text whose output is shown, "" for none
  calls,            \* the run() calls that have started and not completed,
                    \* each with the locals of its execute()
  ncalls,           \* run() calls started so far
  completed,        \* history: what the run() call that completed last
                    \* had been started with and what it stored
  py_globals,       \* interpreter: the text whose driver wrote trace_data,
                    \* __buf, __err and trace_data_json last, "" for none
  pyodidePromise,   \* globalThis.__pyodidePromise
  loads             \* interpreter loads started so far

analyzerVars == <<records, line_exec_count, frame_deps, global_deps>>
driverVars == <<tracing, outcome, first>>
valueVars == <<trace_data, visits, fallback>>
pageVars == <<code, lastExecutedCode, status, error, boxes, view,
              dataFlowResults, dataFlowLoading, runs, analyses, keyed>>
execVars == <<stdout, calls, ncalls, completed, py_globals, pyodidePromise, loads>>
vars == <<prog, collector, records, line_exec_count, frame_deps, global_deps,
          stack, gbound, ev, pending, hpc, phase, steps, nforeign, literal,
          tracing, outcome, first, nfaults, valueVars, pageVars, execVars>>

Lines     == Prog(prog).lines
LineNos   == 1..Len(Lines)
Func(fn)  == CHOOSE f \in Prog(prog).funcs : f.name = fn
FrameIds  == 1..MaxFrameIds
ModuleId  == 0

\* self.assigned_by_line.get(line, set()) and the like
assigned_by_line(l) == Get(collector.assigned, l)
rhs_by_line(l)      == Get(collector.rhs, l)
used_by_line(l)     == Get(collector.used, l)
vars_by_line(l)     == Get(collector.all, l)


\* ------------------------------------------------------- host interpreter
\* A frame of the analysed program: its identity id(frame), its code object,
\* the names bound in its fast locals, the line it is on, the items left in
\* each counted for-loop, and whether the call on the current line returned.
Top == stack[Len(stack)]
is_module_level(fr) == fr.code = "module"
f_locals(fr)  == IF is_module_level(fr) THEN gbound ELSE fr.locals
f_globals(fr) == gbound

NewFrame(fid, co, locals, line) ==
  [fid |-> fid, code |-> co, locals |-> locals, line |-> line,
   it |-> [l \in LineNos |-> Lines[l].iters], called |-> FALSE]

\* names a function's compiler treats as local: parameters and every name
\* stored in its body, except those declared global
LocalNames(fn) ==
  (Func(fn).params \cup
   UNION {NodeNameStore(n) : n \in UNION {NodesOf(Lines[l]) : l \in {k \in LineNos : Lines[k].code = fn}}})
  \ Func(fn).globals

\* names whose value the interpreter loads when it executes the statement
NodeReads(n, fr) ==
  n.value \cup n.tload
    \cup (IF n.type = "AugAssign" THEN n.tstore ELSE {})
    \cup (IF n.type = "AnnAssign" /\ ~is_module_level(fr) THEN {} ELSE n.ann)
LineReads(l, fr) == UNION {NodeReads(n, fr) : n \in NodesOf(Lines[l])}

\* names the statement binds when it completes
NodeBinds(n) ==
  IF n.type \in {"Assign", "AugAssign", "For", "With"} \/ (n.type = "AnnAssign" /\ n.hasValue)
    THEN n.tstore ELSE {}
LineBinds(l) == UNION {NodeBinds(n) : n \in NodesOf(Lines[l])} \cup Lines[l].defs

\* the load of name n in frame fr finds a binding (else NameError)
Resolves(n, fr) ==
  IF ~is_module_level(fr) /\ n \in LocalNames(fr.code)
    THEN n \in fr.locals
    ELSE n \in gbound \cup Builtins


\* ---------------------------------------------------------------- Analyzer
\* a store rebuilt from the targets alone: the other entries are dropped
Put_TargetsOnly(store, keys, val) == [k \in keys |-> val]

\* store[tgt] = val for every tgt in keys
Put(store, keys, val) ==
  [k \in DOMAIN store \cup keys |-> IF k \in keys THEN val ELSE store[k]]

\* sorted(): the names of the analysed programs in code-point order
NameOrder ==
  << "T", "a", "b", "c", "f", "g", "len", "print", "s", "sum", "v", "w", "x", "y" >>
Names == {NameOrder[i] : i \in 1..Len(NameOrder)}
\* sorted() that yields the names in descending order
Sorted_Descending(S) ==
  LET q == SelectSeq(NameOrder, LAMBDA n : n \in S)
  IN  [i \in 1..Len(q) |-> q[Len(q) + 1 - i]]

Sorted(S) == SelectSeq(NameOrder, LAMBDA n : n \in S)

\* _is_builtin that filters nothing
is_builtin_never(name, fr) == FALSE

is_builtin(name, fr) == name \in Builtins

\* a lookup by store entry: the frame's entry, else the global entry
get_with_fallback(fr, var) ==
  IF is_module_level(fr)
    THEN Get(global_deps, var)
    ELSE IF var \in DOMAIN frame_deps[fr.fid]
           THEN frame_deps[fr.fid][var]
           ELSE Get(global_deps, var)

get_current_deps_for(fr, var) ==
  IF var \in f_locals(fr)
    THEN IF is_module_level(fr)
           THEN Get(global_deps, var)
           ELSE Get(frame_deps[fr.fid], var)
    ELSE IF var \in f_globals(fr)
           THEN Get(global_deps, var)
           ELSE {}

\* union_deps without union_deps.add(src)
union_deps_noself(fr, rhs_names) ==
  LET cleaned_rhs == {n \in rhs_names : ~is_builtin(n, fr)}
  IN  UNION {get_current_deps_for(fr, src) : src \in cleaned_rhs}

\* union_deps of _set_deps_for_assignment
union_deps(fr, rhs_names) ==
  LET cleaned_rhs == {n \in rhs_names : ~is_builtin(n, fr)}
  IN  UNION {get_current_deps_for(fr, src) \cup {src} : src \in cleaned_rhs}

\* _set_deps_for_assignment that writes the global store from every frame
set_deps_global_AnyFrame(fr, targets, rhs_names) ==
  Put(global_deps, targets, union_deps(fr, rhs_names))

\* _set_deps_for_assignment, as the new value of (global_deps, frame_deps)
set_deps_global(fr, targets, rhs_names) ==
  IF is_module_level(fr)
    THEN Put(global_deps, targets, union_deps(fr, rhs_names))
    ELSE global_deps
set_deps_frame(fr, targets, rhs_names) ==
  IF is_module_level(fr)
    THEN frame_deps
    ELSE [frame_deps EXCEPT ![fr.fid] = Put(@, targets, union_deps(fr, rhs_names))]

\* the text appended for one (variable, dependency) pair
FormatRecord(line, ecount, v, d) == <<line, ecount, v, d>>

RECURSIVE Flatten(_)
Flatten(ss) == IF ss = <<>> THEN <<>> ELSE Head(ss) \o Flatten(Tail(ss))

\* the records one visit appends: for v in sorted(emit_vars), for d in
\* sorted(pre_deps[v])
emitted(line, ecount, emit_vars, pre_deps) ==
  LET vs == Sorted(emit_vars)
      row(v) == LET ds == Sorted(pre_deps[v])
                IN  [j \in 1..Len(ds) |-> FormatRecord(line, ecount, v, ds[j])]
  IN  Flatten([i \in 1..Len(vs) |-> row(vs[i])])

\* emit_vars without the targets that are read (step 1, second statement)
emit_vars_used_only(line) == used_by_line(line)

\* emit_vars taken from vars_by_line: every name the line reads or assigns
emit_vars_all_vars(line) == used_by_line(line) \cup assigned_by_line(line)

emit_vars_of(line) ==
  used_by_line(line) \cup (assigned_by_line(line) \cap rhs_by_line(line))

\* the variable a name denotes in a frame: the module's (ModuleId) for module
\* code and for names declared global, else the frame's own local
Scope(fr, v) ==
  IF is_module_level(fr) \/ v \notin LocalNames(fr.code) THEN ModuleId ELSE fr.fid

\* history of literal assignments after a visit that assigns `assigned` from rhs
LiteralAfter(fr, assigned, rhs) ==
  LET touched == {<<Scope(fr, v), v>> : v \in assigned}
  IN  IF rhs = {} THEN literal \cup touched ELSE literal \ touched

\* tracer() that snapshots the dependencies after applying the assignment
TraceLine_PostDeps(fr) ==
  LET line      == fr.line
      assigned  == assigned_by_line(line)
      rhs       == rhs_by_line(line)
      emit_vars == emit_vars_of(line)
      gd2       == IF assigned # {} THEN set_deps_global(fr, assigned, rhs)
                                    ELSE global_deps
      fd2       == IF assigned # {} THEN set_deps_frame(fr, assigned, rhs)
                                    ELSE frame_deps
      post(v)   == IF v \in f_locals(fr)
                     THEN IF is_module_level(fr) THEN Get(gd2, v)
                                                 ELSE Get(fd2[fr.fid], v)
                     ELSE IF v \in f_globals(fr) THEN Get(gd2, v) ELSE {}
      post_deps == [v \in emit_vars |-> post(v)]
      ecount    == line_exec_count[line] + 1
  IN  /\ global_deps' = gd2
      /\ frame_deps'  = fd2
      /\ line_exec_count' = [line_exec_count EXCEPT ![line] = ecount]
      /\ records' = records \o emitted(line, ecount, emit_vars, post_deps)
      /\ literal' = LiteralAfter(fr, assigned, rhs)

\* tracer() that counts an execution only when the line reads a variable
TraceLine_CountOnEmit(fr) ==
  LET line      == fr.line
      assigned  == assigned_by_line(line)
      rhs       == rhs_by_line(line)
      emit_vars == emit_vars_of(line)
      pre_deps  == [v \in emit_vars |-> get_current_deps_for(fr, v)]
      ecount    == IF emit_vars = {} THEN line_exec_count[line]
                                     ELSE line_exec_count[line] + 1
  IN  /\ global_deps' = IF assigned # {} THEN set_deps_global(fr, assigned, rhs)
                                         ELSE global_deps
      /\ frame_deps'  = IF assigned # {} THEN set_deps_frame(fr, assigned, rhs)
                                         ELSE frame_deps
      /\ line_exec_count' = [line_exec_count EXCEPT ![line] = ecount]
      /\ records' = records \o emitted(line, ecount, emit_vars, pre_deps)
      /\ literal' = LiteralAfter(fr, assigned, rhs)

\* the line handler that emits with the counter's value before the visit
\* and leaves the counter alone
TraceLine_NoIncrement(fr) ==
  LET line      == fr.line
      assigned  == assigned_by_line(line)
      rhs       == rhs_by_line(line)
      emit_vars == emit_vars_of(line)
      pre_deps  == [v \in emit_vars |-> get_current_deps_for(fr, v)]
      ecount    == line_exec_count[line]
  IN  /\ global_deps' = IF assigned # {} THEN set_deps_global(fr, assigned, rhs)
                                         ELSE global_deps
      /\ frame_deps'  = IF assigned # {} THEN set_deps_frame(fr, assigned, rhs)
                                         ELSE frame_deps
      /\ line_exec_count' = line_exec_count
      /\ records' = records \o emitted(line, ecount, emit_vars, pre_deps)
      /\ literal' = LiteralAfter(fr, assigned, rhs)

\* the body of tracer() for a line event of the analysed source
TraceLine(fr) ==
  LET line      == fr.line
      assigned  == assigned_by_line(line)
      rhs       == rhs_by_line(line)
      emit_vars == emit_vars_of(line)
      pre_deps  == [v \in emit_vars |-> get_current_deps_for(fr, v)]
      ecount    == line_exec_count[line] + 1
  IN  /\ global_deps' = IF assigned # {} THEN set_deps_global(fr, assigned, rhs)
                                         ELSE global_deps
      /\ frame_deps'  = IF assigned # {} THEN set_deps_frame(fr, assigned, rhs)
                                         ELSE frame_deps
      /\ line_exec_count' = [line_exec_count EXCEPT ![line] = ecount]
      /\ records' = records \o emitted(line, ecount, emit_vars, pre_deps)
      /\ literal' = LiteralAfter(fr, assigned, rhs)

\* tracer() without the test of frame.f_code.co_filename
tracer_AnyFile ==
  /\ pending
  /\ phase = "running" /\ tracing
  /\ pending' = FALSE
  /\ IF ev.kind = "line"
       THEN TraceLine(Top) /\ steps' = steps + 1
       ELSE UNCHANGED <<analyzerVars, steps, literal>>
  /\ UNCHANGED <<execVars, pageVars, valueVars, prog, collector, stack, gbound, ev, hpc, phase, nforeign>>
  /\ UNCHANGED <<driverVars, nfaults>>

\* tracer(frame, event, arg): the host hands the pending event to the hook
tracer ==
  /\ pending
  /\ phase = "running" /\ tracing
  /\ pending' = FALSE
  /\ IF ev.file # "src"
       THEN UNCHANGED <<analyzerVars, steps, literal>>
       ELSE IF ev.kind = "line"
              THEN TraceLine(Top) /\ steps' = steps + 1
              ELSE UNCHANGED <<analyzerVars, steps, literal>>
  /\ UNCHANGED <<execVars, pageVars, valueVars, prog, collector, stack, gbound, ev, hpc, phase, nforeign>>
  /\ UNCHANGED <<driverVars, nfaults>>

\* -------------------------------------------------------------- host steps
LineEv(k) == [kind |-> k, file |-> "src"]

\* runpy starts the module code: the first line event
HostBegin ==
  /\ hpc = "start" /\ ~pending /\ phase = "running"
  /\ steps < MaxSteps
  /\ pending' = TRUE /\ ev' = LineEv("line") /\ hpc' = "exec"
  /\ UNCHANGED <<execVars, pageVars, valueVars, prog, collector, analyzerVars, stack, gbound, phase, steps, nforeign, literal>>
  /\ UNCHANGED <<driverVars, nfaults>>

AllResolve(fr) == \A n \in LineReads(fr.line, fr) : Resolves(n, fr)

\* the line loads a name that has no binding: the program raises
HostRaise ==
  /\ hpc = "exec" /\ ~pending /\ phase = "running"
  /\ ~Top.called /\ ~AllResolve(Top)
  /\ pending' = TRUE /\ ev' = LineEv("exception") /\ hpc' = "unwind"
  /\ UNCHANGED <<execVars, pageVars, valueVars, prog, collector, analyzerVars, stack, gbound, phase, steps, nforeign, literal>>
  /\ UNCHANGED <<driverVars, nfaults>>

\* the exception leaves the module code: runpy.run_path raises into run()
HostUnwind ==
  /\ hpc = "unwind" /\ ~pending /\ phase = "running"
  /\ phase' = "raised" /\ hpc' = "end"
  /\ UNCHANGED <<execVars, pageVars, valueVars, prog, collector, analyzerVars, stack, gbound, ev, pending, steps, nforeign, literal>>
  /\ UNCHANGED <<driverVars, nfaults>>

\* the line calls a function of the program: a new frame, a call event
HostCall ==
  /\ hpc = "exec" /\ ~pending /\ phase = "running"
  /\ Lines[Top.line].call # "" /\ ~Top.called /\ AllResolve(Top)
  /\ \E fid \in FrameIds \ {stack[i].fid : i \in 1..Len(stack)} :
       LET fn == Lines[Top.line].call
       IN  /\ stack' = Append([stack EXCEPT ![Len(stack)].called = TRUE],
                               NewFrame(fid, fn, Func(fn).params, Func(fn).entry))
           /\ literal' = {p \in literal : p[1] # fid}
  /\ pending' = TRUE /\ ev' = LineEv("call") /\ hpc' = "enter"
  /\ UNCHANGED <<execVars, pageVars, valueVars, prog, collector, analyzerVars, gbound, phase, steps, nforeign>>
  /\ UNCHANGED <<driverVars, nfaults>>

\* the first line of the called function
HostEnter ==
  /\ hpc = "enter" /\ ~pending /\ phase = "running"
  /\ steps < MaxSteps
  /\ pending' = TRUE /\ ev' = LineEv("line") /\ hpc' = "exec"
  /\ UNCHANGED <<execVars, pageVars, valueVars, prog, collector, analyzerVars, stack, gbound, phase, steps, nforeign, literal>>
  /\ UNCHANGED <<driverVars, nfaults>>

\* the line finishes: its names are bound and control moves on
HostComplete ==
  /\ hpc = "exec" /\ ~pending /\ phase = "running"
  /\ (Lines[Top.line].call = "" \/ Top.called) /\ (Top.called \/ AllResolve(Top))
  /\ LET fr  == Top
         l   == fr.line
         rec == Lines[l]
     IN \E iterate \in BOOLEAN :
          /\ rec.iters = NotFor => iterate
          /\ rec.iters >= 0 => (iterate <=> fr.it[l] > 0)
          /\ \E nxt \in (IF iterate /\ rec.iters # NotFor THEN {rec.body} ELSE rec.next) :
               LET binds == IF iterate THEN LineBinds(l) ELSE {}
                   gdecl == IF is_module_level(fr) THEN binds
                            ELSE binds \cap Func(fr.code).globals
                   it2   == IF rec.iters >= 0
                              THEN [fr.it EXCEPT ![l] = IF iterate THEN @ - 1 ELSE rec.iters]
                              ELSE fr.it
                   fr2   == [fr EXCEPT !.locals = IF is_module_level(fr) THEN @
                                                  ELSE @ \cup (binds \ gdecl),
                                       !.it = it2,
                                       !.called = FALSE,
                                       !.line = IF nxt = 0 THEN @ ELSE nxt]
               IN  /\ gbound' = gbound \cup gdecl
                   /\ stack' = [stack EXCEPT ![Len(stack)] = fr2]
                   /\ IF nxt = 0
                        THEN IF is_module_level(fr)
                               THEN phase' = "done" /\ hpc' = "end"
                                    /\ UNCHANGED <<ev, pending>>
                               ELSE pending' = TRUE /\ ev' = LineEv("return")
                                    /\ hpc' = "leave" /\ UNCHANGED phase
                        ELSE /\ steps < MaxSteps
                             /\ pending' = TRUE /\ ev' = LineEv("line")
                             /\ UNCHANGED <<hpc, phase>>
  /\ UNCHANGED <<execVars, pageVars, valueVars, prog, collector, analyzerVars, steps, nforeign, literal>>
  /\ UNCHANGED <<driverVars, nfaults>>

\* the function returns: its frame ends and its identity is free again
HostLeave ==
  /\ hpc = "leave" /\ ~pending /\ phase = "running"
  /\ stack' = SubSeq(stack, 1, Len(stack) - 1)
  /\ hpc' = "exec"
  /\ UNCHANGED <<execVars, pageVars, valueVars, prog, collector, analyzerVars, gbound, ev, pending, phase, steps, nforeign, literal>>
  /\ UNCHANGED <<driverVars, nfaults>>

\* a frame of another file (runpy, a library) produces an event
HostForeign ==
  /\ ~pending /\ phase = "running" /\ hpc # "end"
  /\ nforeign < MaxForeign
  /\ \E k \in {"call", "line"} : ev' = [kind |-> k, file |-> "other"]
  /\ pending' = TRUE /\ nforeign' = nforeign + 1
  /\ UNCHANGED <<execVars, pageVars, valueVars, prog, collector, analyzerVars, stack, gbound, hpc, phase, steps, literal>>
  /\ UNCHANGED <<driverVars, nfaults>>

\* ------------------------------------------------- construction and return
NoOutcome == [kind |-> "none", list |-> << >>, error |-> ""]

\* ---------------------------------------------- the text of a record
\* A text is the sequence of its characters. records holds, for every text
\* the tracer appended, the four values its f-string interpolates;
\* f_string is the text itself.
Digits == << "0", "1", "2", "3", "4", "5", "6", "7", "8", "9" >>
IsDigit(c) == \E d \in 1..Len(Digits) : Digits[d] = c

\* the characters of the names of the analysed programs
Chars(n) ==
  CASE n = "len"   -> << "l", "e", "n" >>
    [] n = "print" -> << "p", "r", "i", "n", "t" >>
    [] n = "sum"   -> << "s", "u", "m" >>
    [] OTHER       -> << n >>

\* the name a text spells ("?" for a text that spells none of NameOrder)
NameOf(cs) ==
  IF \E n \in Names : Chars(n) = cs
    THEN CHOOSE n \in Names : Chars(n) = cs
    ELSE "?"

\* {line}, {ecount}: the decimal text of a count
RECURSIVE str(_)
str(n) ==
  IF n < 10 THEN << Digits[n + 1] >>
            ELSE str(n \div 10) \o << Digits[(n % 10) + 1] >>

\* the record text with semicolons between the fields
f_string_Semicolons(r) ==
  str(r[1]) \o << ";" >> \o str(r[2]) \o << ";" >> \o Chars(r[3]) \o << ";" >> \o Chars(r[4])

\* f"{line},{ecount},{v},{d}"
f_string(r) ==
  str(r[1]) \o << "," >> \o str(r[2]) \o << "," >> \o Chars(r[3]) \o << "," >> \o Chars(r[4])

\* result.split(","): the texts between the separators, empty ones included
RECURSIVE split(_, _)
split(s, sep) ==
  IF \A k \in 1..Len(s) : s[k] # sep
    THEN << s >>
    ELSE LET k == CHOOSE i \in 1..Len(s) :
                    s[i] = sep /\ \A j \in 1..(i - 1) : s[j] # sep
         IN  << SubSeq(s, 1, k - 1) >> \o split(SubSeq(s, k + 1, Len(s)), sep)

\* int(text) is defined for a text of decimal digits; for any other text
\* of letters and commas it raises ValueError
IsDecimal(cs) == cs # << >> /\ \A k \in 1..Len(cs) : IsDigit(cs[k])
RECURSIVE int(_)
int(cs) ==
  LET d == (CHOOSE i \in 1..Len(Digits) : Digits[i] = cs[Len(cs)]) - 1
  IN  IF Len(cs) = 1 THEN d ELSE 10 * int(SubSeq(cs, 1, Len(cs) - 1)) + d

\* the four-part texts of the list, split
Parts(recs) ==
  SelectSeq([i \in 1..Len(recs) |-> split(f_string(recs[i]), ",")],
            LAMBDA parts : Len(parts) = 4)

\* the conversion loop ends with ValueError at a four-part text whose
\* first or second part is no number
ConversionRaises(recs) ==
  \E i \in 1..Len(Parts(recs)) :
    ~IsDecimal(Parts(recs)[i][1]) \/ ~IsDecimal(Parts(recs)[i][2])

\* result_list: one dict per record that splits into four parts
result_list(recs) ==
  LET four == Parts(recs)
  IN  [i \in 1..Len(four) |->
         [line |-> int(four[i][1]), execution |-> int(four[i][2]),
          variable |-> NameOf(four[i][3]), dependency |-> NameOf(four[i][4])]]

\* what runDataFlowAnalysis hands its caller once run() has returned recs
Converted(recs) ==
  IF ConversionRaises(recs)
    THEN [kind |-> "rejected", list |-> << >>, error |-> "ValueError"]
    ELSE [kind |-> "list", list |-> result_list(recs), error |-> ""]

\* Analyzer(temp_file) that hands the caller an empty list for a text that
\* does not parse
Analyzer_init_EmptyList ==
  /\ phase = "new"
  /\ IF ParseFails(prog)
       THEN /\ phase' = "failed"
            /\ outcome' = [kind |-> "list", list |-> << >>, error |-> ""]
       ELSE phase' = "ready" /\ UNCHANGED outcome
  /\ collector' = IF ParseFails(prog) THEN collector ELSE Collect(Lines)
  /\ UNCHANGED <<execVars, pageVars, valueVars, prog, analyzerVars, stack, gbound, ev, pending, hpc, steps,
                 nforeign, literal, tracing, first, nfaults>>

\* Analyzer(temp_file): ast.parse raises for a text that does not parse, the
\* driver script ends with the SyntaxError and runDataFlowAnalysis rejects
Analyzer_init ==
  /\ phase = "new"
  /\ IF ParseFails(prog)
       THEN /\ phase' = "failed"
            /\ outcome' = [kind |-> "rejected", list |-> << >>, error |-> "SyntaxError"]
       ELSE phase' = "ready" /\ UNCHANGED outcome
  /\ collector' = IF ParseFails(prog) THEN collector ELSE Collect(Lines)
  /\ UNCHANGED <<execVars, pageVars, valueVars, prog, analyzerVars, stack, gbound, ev, pending, hpc, steps,
                 nforeign, literal, tracing, first, nfaults>>

\* run(), up to runpy.run_path: sys.settrace(self.tracer)
run_begin ==
  /\ phase = "ready"
  /\ phase' = "running" /\ tracing' = TRUE
  /\ UNCHANGED <<execVars, pageVars, valueVars, prog, collector, analyzerVars, stack, gbound, ev, pending, hpc, steps,
                 nforeign, literal, outcome, first, nfaults>>

\* run() whose finally clause does not return: the program's exception
\* leaves run() and the driver script
run_finally_Reraise ==
  /\ phase \in {"done", "raised"} /\ tracing
  /\ tracing' = FALSE
  /\ outcome' = IF phase = "raised"
                  THEN [kind |-> "rejected", list |-> << >>, error |-> "Exception"]
                  ELSE Converted(records)
  /\ UNCHANGED <<execVars, pageVars, valueVars, prog, collector, analyzerVars, stack, gbound, ev, pending, hpc, phase,
                 steps, nforeign, literal, first, nfaults>>

\* the finally clause of run(): sys.settrace(prev_trace); return self.records
\* (the return discards an exception of the program), then the driver's
\* conversion to result_list, which runDataFlowAnalysis returns
run_finally ==
  /\ phase \in {"done", "raised"} /\ tracing
  /\ tracing' = FALSE
  /\ outcome' = Converted(records)
  /\ UNCHANGED <<execVars, pageVars, valueVars, prog, collector, analyzerVars, stack, gbound, ev, pending, hpc, phase,
                 steps, nforeign, literal, first, nfaults>>

\* runDataFlowAnalysis is called again with the same text: a new temporary
\* file, a new Analyzer, a new run of the program
Reanalyse ==
  /\ outcome.kind # "none" /\ first.kind = "none"
  /\ prog \in Deterministic
  /\ first' = outcome
  /\ outcome' = NoOutcome
  /\ records' = <<>>
  /\ line_exec_count' = [l \in LineNos |-> 0]
  /\ frame_deps' = [f \in FrameIds |-> EmptyStore]
  /\ global_deps' = EmptyStore
  /\ stack' = << NewFrame(ModuleId, "module", {}, 1) >>
  /\ gbound' = {}
  /\ ev' = [kind |-> "none", file |-> "src"]
  /\ pending' = FALSE
  /\ hpc' = "start"
  /\ phase' = "new"
  /\ steps' = 0 /\ nforeign' = 0 /\ nfaults' = 0
  /\ literal' = {}
  /\ collector' = EmptyTables
  /\ UNCHANGED <<execVars, pageVars, valueVars, prog, tracing>>

\* the except clause of tracer() that lets the exception leave the hook: the
\* interpreter then unsets the trace function
HookExcept_Propagate ==
  /\ UNCHANGED <<analyzerVars, literal>>
  /\ tracing' = FALSE

\* the except clause of tracer(): return self.tracer
HookExcept ==
  /\ UNCHANGED <<analyzerVars, literal>>
  /\ tracing' = TRUE

\* tracer(frame, event, arg) for a line event of the analysed source during
\* which an inspection of the frame raises: the inspections (f_code, f_lineno,
\* f_locals, f_globals, f_builtins) all come before the first update of a
\* store, a counter or the record list
tracer_except ==
  /\ pending
  /\ phase = "running" /\ tracing
  /\ ev = LineEv("line")
  /\ nfaults < MaxFaults
  /\ pending' = FALSE
  /\ steps' = steps + 1
  /\ nfaults' = nfaults + 1
  /\ HookExcept
  /\ UNCHANGED <<execVars, pageVars, valueVars, prog, collector, stack, gbound, ev, hpc, phase, nforeign, outcome, first>>

\* the state before anything has run, for a text among ids
Begin(ids) ==
  /\ prog \in ids
  /\ collector = EmptyTables
  /\ records = <<>>
  /\ line_exec_count = [l \in 1..Len(Prog(prog).lines) |-> 0]
  /\ frame_deps = [f \in FrameIds |-> EmptyStore]
  /\ global_deps = EmptyStore
  /\ stack = << [fid |-> ModuleId, code |-> "module", locals |-> {}, line |-> 1,
                 it |-> [l \in 1..Len(Prog(prog).lines) |-> Prog(prog).lines[l].iters],
                 called |-> FALSE] >>
  /\ gbound = {}
  /\ ev = [kind |-> "none", file |-> "src"]
  /\ pending = FALSE
  /\ hpc = "start"
  /\ phase = "new"
  /\ steps = 0
  /\ nforeign = 0
  /\ literal = {}
  /\ tracing = FALSE
  /\ outcome = NoOutcome
  /\ first = NoOutcome
  /\ nfaults = 0
  /\ trace_data = <<>>
  /\ visits = [l \in 1..Len(Prog(prog).lines) |-> 0]
  /\ fallback = FALSE
  /\ code = SAMPLE
  /\ lastExecutedCode = SAMPLE
  /\ status = "idle"
  /\ error = ""
  /\ boxes = ""
  /\ view = "full"
  /\ dataFlowResults = <<>>
  /\ dataFlowLoading = FALSE
  /\ runs = <<>>
  /\ analyses = <<>>
  /\ keyed = NoKey
  /\ stdout = ""
  /\ calls = <<>>
  /\ ncalls = 0
  /\ completed = NoCall
  /\ py_globals = ""
  /\ pyodidePromise = NoPromise
  /\ loads = 0

Init == Begin(ProgIds)

Next ==
  \/ Analyzer_init
  \/ run_begin
  \/ run_finally
  \/ Reanalyse
  \/ tracer
  \/ HostBegin
  \/ HostRaise
  \/ HostUnwind
  \/ HostCall
  \/ HostEnter
  \/ HostComplete
  \/ HostLeave
  \/ HostForeign

Spec == Init /\ [][Next]_vars

\* the same analyses with line events whose handling raises inside the hook
FaultProgIds == {"A", "B", "D", "L"}
InitFault == Init /\ prog \in FaultProgIds
NextFault == Next \/ tracer_except
SpecFault == InitFault /\ [][NextFault]_vars


\* ------------------------------------- the value tracer (python.ts)
\* execute(code) runs the program under __tracer, which appends one row to
\* trace_data per visited line that has user variables in scope; run()
\* groups the rows by line into the projection boxes.
RunProgIds == {"B", "F", "L", "V", "X"}

\* the names whose value is a function object: callable(v) holds
Callables == UNION {Lines[l].defs : l \in LineNos}

\* __capture_state(line_num, frame): d holds the variables of f_locals that
\* are neither dunder names nor callables; the row is appended only if d is
\* not empty.  visit is history: the number of the visit that made the row
capture_state(line, fr) ==
  LET d == f_locals(fr) \ Callables
  IN  IF d # {}
        THEN Append(trace_data, [line |-> line, vars |-> d,
                                 visit |-> visits[line] + 1])
        ELSE trace_data

\* __tracer(frame, event, arg): the host hands it the pending event
py_tracer ==
  /\ pending
  /\ phase = "running" /\ tracing
  /\ pending' = FALSE
  /\ IF ev.kind = "line" /\ ev.file = "src"
       THEN /\ trace_data' = capture_state(Top.line, Top)
            /\ visits' = [visits EXCEPT ![Top.line] = @ + 1]
            /\ steps' = steps + 1
       ELSE UNCHANGED <<trace_data, visits, steps>>
  /\ UNCHANGED <<execVars, pageVars, fallback, prog, collector, analyzerVars, stack, gbound,
                 ev, hpc, phase, nforeign, literal, driverVars, nfaults>>

\* __run_user(), up to the exec: sys.settrace(__tracer), then compile; a
\* text that does not compile raises in the try and again in the except
\* clause, and the driver ends with __err set
run_user ==
  /\ phase = "new"
  /\ IF ParseFails(prog)
       THEN /\ phase' = "failed"
            /\ outcome' = [kind |-> "error", list |-> << >>, error |-> "SyntaxError"]
            /\ UNCHANGED tracing
       ELSE /\ phase' = "running" /\ tracing' = TRUE
            /\ UNCHANGED outcome
  /\ UNCHANGED <<execVars, pageVars, valueVars, prog, collector, analyzerVars, stack, gbound,
                 ev, pending, hpc, steps, nforeign, literal, first, nfaults>>

\* the except clause of __run_user(): the program raised, so it is executed
\* again, in the same namespace __g and with __tracer still installed
run_user_except ==
  /\ phase = "raised" /\ ~fallback
  /\ fallback' = TRUE
  /\ phase' = "running" /\ hpc' = "start"
  /\ stack' = << NewFrame(ModuleId, "module", {}, 1) >>
  /\ steps' = 0
  /\ visits' = [l \in LineNos |-> 0]
  /\ UNCHANGED <<execVars, pageVars, trace_data, prog, collector, analyzerVars, gbound, ev,
                 pending, nforeign, literal, driverVars, nfaults>>

\* the finally clause of __run_user() and the rest of the driver:
\* sys.settrace(None); execute returns the rows, and __err if the second
\* execution raised as well
run_user_finally ==
  /\ tracing
  /\ phase = "done" \/ (phase = "raised" /\ fallback)
  /\ tracing' = FALSE
  /\ outcome' = IF phase = "done"
                  THEN [kind |-> "rows", list |-> trace_data, error |-> ""]
                  ELSE [kind |-> "error", list |-> trace_data, error |-> "Exception"]
  /\ UNCHANGED <<execVars, pageVars, valueVars, prog, collector, analyzerVars, stack, gbound,
                 ev, pending, hpc, phase, steps, nforeign, literal, first, nfaults>>

InitRun == Begin(RunProgIds)
NextRun ==
  \/ run_user
  \/ run_user_except
  \/ run_user_finally
  \/ py_tracer
  \/ HostBegin
  \/ HostRaise
  \/ HostUnwind
  \/ HostCall
  \/ HostEnter
  \/ HostComplete
  \/ HostLeave
  \/ HostForeign
SpecRun == InitRun /\ [][NextRun]_vars

\* run(): the rows execute returned, grouped by line in their order
BoxRows(l) == SelectSeq(outcome.list, LAMBDA r : r.line = l)
\* ProjectionBox: row i (counted from 1) is shown with
\* getDependencies(v, i), the records of execution i of the box's line
RowExecution(i) == i


\* ------------------------------------------------ the page (App.tsx)
\* The component's state is the variables of pageVars.  A handler or the
\* continuation of a promise sets state; React then renders and runs the
\* effects whose dependencies changed, which may set state again, until a
\* render changes nothing.  Each page action below is a handler followed by
\* these renders, so every state of SpecPage is a settled one.
MaxRuns == 1
MaxAnalyses == 1
\* the texts the user can type: two programs and a text that does not parse
Codes == {"A", "B", "X"}
\* executing the text ends in an exception whatever the environment does
AlwaysRaises(c) == ParseFails(c)
Views == {"full", "scoped", "dataflow"}
Keys == {"1", "2", "3", "a"}
Targets == {"TEXTAREA", "BODY"}

\* what runDataFlowAnalysis(c) resolves with, abstracted to a list that
\* names the text analysed; a text that does not parse makes it reject, and
\* the effect's catch stores the empty list
AnalysisOf(c) == IF ParseFails(c) THEN << >> ELSE << c >>

Page ==
  [code |-> code, lastExecutedCode |-> lastExecutedCode, status |-> status,
   error |-> error, boxes |-> boxes, view |-> view,
   dataFlowResults |-> dataFlowResults, dataFlowLoading |-> dataFlowLoading,
   runs |-> runs, analyses |-> analyses]

\* the status effect and its dependency list; r is the render whose values
\* the effect closes over, a the state its updates are applied to
statusDeps(r) == <<r.code, r.lastExecutedCode, r.status>>
statusEffect(r, a) ==
  IF r.code # r.lastExecutedCode /\ r.status \in {"ok", "error"}
    THEN [a EXCEPT !.status = "modified"]
    ELSE a

\* the data-flow analysis effect: it starts runDataFlowAnalysis(code)
analysisDeps(r) ==
  <<r.view, r.status, r.code, Len(r.dataFlowResults), r.lastExecutedCode>>
analysisEffect(r, a) ==
  IF r.view = "dataflow" /\ r.status = "ok"
       /\ (Len(r.dataFlowResults) = 0 \/ r.lastExecutedCode # r.code)
    THEN [a EXCEPT !.dataFlowLoading = TRUE, !.analyses = Append(@, r.code)]
    ELSE a

\* the clear-results effect
clearDeps(r) == <<r.view>>
clearEffect(r, a) ==
  IF r.view # "dataflow"
    THEN [a EXCEPT !.dataFlowResults = << >>, !.dataFlowLoading = FALSE]
    ELSE a

\* render r after render prev, then the renders its effects cause
RECURSIVE commit(_, _)
commit(prev, r) ==
  LET a1 == IF statusDeps(r) # statusDeps(prev) THEN statusEffect(r, r) ELSE r
      a2 == IF analysisDeps(r) # analysisDeps(prev) THEN analysisEffect(r, a1) ELSE a1
      a3 == IF clearDeps(r) # clearDeps(prev) THEN clearEffect(r, a2) ELSE a2
  IN  IF a3 = r THEN r ELSE commit(r, a3)

\* the handler left the state s: render until nothing changes
Render(s) ==
  LET t == commit(Page, s)
  IN  /\ Len(t.analyses) <= MaxAnalyses
      /\ code' = t.code
      /\ lastExecutedCode' = t.lastExecutedCode
      /\ status' = t.status
      /\ error' = t.error
      /\ boxes' = t.boxes
      /\ view' = t.view
      /\ dataFlowResults' = t.dataFlowResults
      /\ dataFlowLoading' = t.dataFlowLoading
      /\ runs' = t.runs
      /\ analyses' = t.analyses

dynVars == <<prog, collector, analyzerVars, stack, gbound, ev, pending, hpc,
             phase, steps, nforeign, literal, driverVars, nfaults>>

\* the keydown handler without its test of the event's target
onKey_AnyTarget(key, target) ==
  CASE key = "1" -> [Page EXCEPT !.view = "full"]
    [] key = "2" -> [Page EXCEPT !.view = "scoped"]
    [] key = "3" -> [Page EXCEPT !.view = "dataflow"]
    [] OTHER     -> Page

\* onKey(e), the window's keydown listener
onKey(key, target) ==
  IF target = "TEXTAREA" THEN Page
  ELSE CASE key = "1" -> [Page EXCEPT !.view = "full"]
         [] key = "2" -> [Page EXCEPT !.view = "scoped"]
         [] key = "3" -> [Page EXCEPT !.view = "dataflow"]
         [] OTHER     -> Page

\* a key goes down somewhere in the window
keydown ==
  /\ \E key \in Keys, target \in Targets :
       /\ Render(onKey(key, target))
       /\ keyed' = [key |-> key, target |-> target]
  /\ UNCHANGED <<dynVars, valueVars, execVars>>

\* a click on one of the three view toggles: setView(v)
onPressedChange ==
  /\ \E v \in Views : Render([Page EXCEPT !.view = v])
  /\ keyed' = NoKey
  /\ UNCHANGED <<dynVars, valueVars, execVars>>

\* the textarea's onChange: setCode(e.target.value)
onChange ==
  /\ \E c \in Codes : Render([Page EXCEPT !.code = c])
  /\ keyed' = NoKey
  /\ UNCHANGED <<dynVars, valueVars, execVars>>

\* run(), up to its await: the Run button
App_run ==
  /\ Len(runs) < MaxRuns
  /\ Render([Page EXCEPT !.status = "running", !.error = "",
                         !.runs = Append(@, code)])
  /\ keyed' = NoKey
  /\ UNCHANGED <<dynVars, valueVars, execVars>>

\* run(), after execute(code) has returned or thrown for the oldest
\* execution; code is the text run() was started with
App_run_resume ==
  /\ runs # << >>
  /\ \E ok \in BOOLEAN :
       /\ ok => ~AlwaysRaises(Head(runs))
       /\ Render(IF ok
                   THEN [Page EXCEPT !.boxes = Head(runs), !.status = "ok",
                                     !.lastExecutedCode = Head(runs),
                                     !.runs = Tail(@)]
                   ELSE [Page EXCEPT !.error = "err", !.status = "error",
                                     !.runs = Tail(@)])
  /\ keyed' = NoKey
  /\ UNCHANGED <<dynVars, valueVars, execVars>>

\* the oldest analysis settles: then/catch store its list, finally clears
\* the loading flag
analysis_settles ==
  /\ analyses # << >>
  /\ Render([Page EXCEPT !.dataFlowResults = AnalysisOf(Head(analyses)),
                         !.dataFlowLoading = FALSE,
                         !.analyses = Tail(@)])
  /\ keyed' = NoKey
  /\ UNCHANGED <<dynVars, valueVars, execVars>>

InitPage == Begin({SAMPLE})
NextPage ==
  \/ keydown
  \/ onPressedChange
  \/ onChange
  \/ App_run
  \/ App_run_resume
  \/ analysis_settles
SpecPage == InitPage /\ [][NextPage]_vars


\* ------------------------------- run() and execute() (App.tsx, python.ts)
\* The same page with each run() call followed through the awaits of its
\* execute(): other calls, edits and the interpreter load may come between
\* any two of them.  The driver leaves its results in interpreter globals,
\* which execute() reads back in later awaited calls.
MaxCalls == 2

\* ensurePyodide() without its test of the stored promise
ensurePyodide_NoCache == [id |-> loads + 1, state |-> "pending"]

\* ensurePyodide(): the promise stored when the call returns; a new promise
\* starts a load of the interpreter
ensurePyodide ==
  IF pyodidePromise.state # "unset"
    THEN pyodidePromise
    ELSE [id |-> loads + 1, state |-> "pending"]

\* the interpreter load ends: resolve(pyodide) or reject(e)
load_settles ==
  /\ pyodidePromise.state = "pending"
  /\ \E st \in {"resolved", "rejected"} :
       pyodidePromise' = [pyodidePromise EXCEPT !.state = st]
  /\ UNCHANGED <<dynVars, valueVars, pageVars, stdout, calls, ncalls, completed,
                 py_globals, loads>>

\* run(), up to the first await of execute(code): the Run button
\* ensurePyodide is an async function: every call creates the promise it
\* returns (ret, one per call), and that promise settles as the stored
\* promise the body returns (awaits); late tells that the call found the
\* stored promise rejected
run_call ==
  /\ ncalls < MaxCalls
  /\ ncalls' = ncalls + 1
  /\ pyodidePromise' = ensurePyodide
  /\ loads' = IF ensurePyodide.id # pyodidePromise.id THEN loads + 1 ELSE loads
  /\ calls' = Append(calls, [id |-> ncalls + 1, code |-> code, pc |-> "ensure",
                             ret |-> ncalls + 1,
                             awaits |-> ensurePyodide.id,
                             late |-> pyodidePromise.state = "rejected",
                             out |-> "", err |-> FALSE, rows |-> ""])
  /\ stdout' = ""
  /\ Render([Page EXCEPT !.status = "running", !.error = ""])
  /\ keyed' = NoKey
  /\ UNCHANGED <<dynVars, valueVars, completed, py_globals>>

Without(i) == SubSeq(calls, 1, i - 1) \o SubSeq(calls, i + 1, Len(calls))

\* the catch clause of run(): the call's execute() threw
run_catch(i) ==
  /\ calls' = Without(i)
  /\ completed' = [id |-> calls[i].id, code |-> calls[i].code,
                    ok |-> FALSE, boxes |-> "", stdout |-> ""]
  /\ Render([Page EXCEPT !.error = "err", !.status = "error"])
  /\ UNCHANGED <<stdout, py_globals>>

\* run() after execute() that leaves status and the executed text as they
\* are when the run succeeded
run_resume_NoStatus(i, c) ==
  /\ calls' = Without(i)
  /\ stdout' = c.out
  /\ completed' = [id |-> c.id, code |-> c.code, ok |-> ~c.err,
                    boxes |-> IF c.err THEN "" ELSE c.rows, stdout |-> c.out]
  /\ Render(IF c.err
              THEN [Page EXCEPT !.error = "err", !.status = "error"]
              ELSE [Page EXCEPT !.boxes = c.rows])
  /\ UNCHANGED py_globals

\* run() after execute() has returned {out, err, rows} = c
run_resume(i, c) ==
  /\ calls' = Without(i)
  /\ stdout' = c.out
  /\ completed' = [id |-> c.id, code |-> c.code, ok |-> ~c.err,
                    boxes |-> IF c.err THEN "" ELSE c.rows, stdout |-> c.out]
  /\ Render(IF c.err
              THEN [Page EXCEPT !.error = "err", !.status = "error"]
              ELSE [Page EXCEPT !.boxes = c.rows, !.status = "ok",
                                !.lastExecutedCode = c.code])
  /\ UNCHANGED py_globals

\* the awaited call a run() is waiting for rejects: execute() throws
await_rejects ==
  /\ \E i \in 1..Len(calls) :
       /\ calls[i].pc = "ensure" => pyodidePromise.state = "rejected"
       /\ run_catch(i)
  /\ keyed' = NoKey
  /\ UNCHANGED <<dynVars, valueVars, ncalls, pyodidePromise, loads>>

\* the awaited call a run() is waiting for resolves: execute() goes on to
\* its next await, or returns and run() stores the results
await_resolves ==
  /\ \E i \in 1..Len(calls) :
       LET c == calls[i]
           goto(pc) == /\ calls' = [calls EXCEPT ![i].pc = pc]
                       /\ UNCHANGED <<pageVars, stdout, completed, py_globals>>
       IN  CASE c.pc = "ensure" ->
                  pyodidePromise.state = "resolved" /\ goto("settrace")
             [] c.pc = "settrace" -> goto("driver")
             [] c.pc = "driver" ->
                  /\ py_globals' = c.code
                  /\ calls' = [calls EXCEPT ![i].pc = "out"]
                  /\ UNCHANGED <<pageVars, stdout, completed>>
             [] c.pc = "out" ->
                  /\ calls' = [calls EXCEPT ![i].pc = "err", ![i].out = py_globals]
                  /\ UNCHANGED <<pageVars, stdout, completed, py_globals>>
             [] c.pc = "err" ->
                  /\ calls' = [calls EXCEPT ![i].pc = "rows",
                                            ![i].err = AlwaysRaises(py_globals)]
                  /\ UNCHANGED <<pageVars, stdout, completed, py_globals>>
             [] c.pc = "rows" -> goto("json")
             [] c.pc = "json" ->
                  /\ run_resume(i, [c EXCEPT !.rows = py_globals])
                  /\ keyed' = NoKey
  /\ UNCHANGED <<dynVars, valueVars, ncalls, pyodidePromise, loads>>

InitExec == Begin({SAMPLE})
NextExec ==
  \/ onChange
  \/ run_call
  \/ load_settles
  \/ await_resolves
  \/ await_rejects
SpecExec == InitExec /\ [][NextExec]_vars

\* the run() calls alone, on a text that is not edited, where every awaited
\* call eventually resolves or rejects, and so does the load
NextCalls ==
  \/ run_call
  \/ load_settles
  \/ await_resolves
  \/ await_rejects
SpecExecFair ==
  /\ InitExec /\ [][NextCalls]_vars
  /\ WF_vars(load_settles) /\ WF_vars(await_resolves \/ await_rejects)


\* ================================================================ properties
\* the step in which the hook handles a line event of the analysed source
LineVisit == pending /\ ev = LineEv("line") /\ ~pending'
\* the hook has just handled the line event of line l of the innermost frame
JustVisited(l) ==
  ~pending /\ ev = LineEv("line") /\ hpc = "exec" /\ Top.line = l /\ ~Top.called
\* the step starts a new analysis: a new Analyzer with its own state
NewAnalyzer == first' # first
\* the records the step appends
Appended == SubSeq(records', Len(records) + 1, Len(records'))
\* the dependencies the step's records list for variable v
DepsEmitted(v) ==
  {Appended[i][4] : i \in {j \in 1..Len(Appended) : Appended[j][3] = v}}
\* the store the visiting frame writes to, after the step
StoreAfter == IF is_module_level(Top) THEN global_deps' ELSE frame_deps'[Top.fid]
IsPrefix(p, q) == Len(p) <= Len(q) /\ \A i \in 1..Len(p) : p[i] = q[i]
RecordsWith(l, v) == {i \in 1..Len(records) : records[i][1] = l /\ records[i][3] = v}

\* C1 (Scenario A): analysing a = 1 / b = a / c = b + a yields exactly one
\* record, {line 3, execution 1, variable b, dependency a}: the record list is
\* a prefix of that list throughout the run (so line 2 emits nothing and no
\* record has variable a or c) and is that list when the program has ended.
C1_ScenarioA ==
  prog = "A" =>
    /\ IsPrefix(records, << <<3, 1, "b", "a">> >>)
    /\ phase = "done" => records = << <<3, 1, "b", "a">> >>
C1_Witness ==
  /\ prog = "A" /\ phase = "done"
  /\ line_exec_count = <<1, 1, 1>>
  /\ Len(records) = 1

\* C2 (Scenario B): analysing a = [1, 2] / for x in a: / y = x yields exactly
\* the records {3, 1, x, a} and {3, 2, x, a}, in this order; no visit of the
\* for-header on line 2 appends a record.
ExpectedB == << <<3, 1, "x", "a">>, <<3, 2, "x", "a">> >>
C2_ScenarioB ==
  prog = "B" =>
    /\ IsPrefix(records, ExpectedB)
    /\ phase = "done" => records = ExpectedB
    /\ \A i \in 1..Len(records) : records[i][1] # 2
C2_Witness ==
  /\ prog = "B" /\ phase = "done"
  /\ line_exec_count[2] = 3 /\ line_exec_count[3] = 2
  /\ Len(records) = 2

\* C3 (read before write): on every visit of a line where a name v is both
\* emitted and assigned, the records of the visit for v list exactly the
\* dependency set a read of v returned before the visit, not the set the
\* visit's propagation writes.
C3_ReadBeforeWrite ==
  [][LineVisit =>
       \A v \in (used_by_line(Top.line)
                   \cup (assigned_by_line(Top.line) \cap rhs_by_line(Top.line)))
                \cap assigned_by_line(Top.line) :
          DepsEmitted(v) = get_current_deps_for(Top, v)]_vars
\* the first visit of s = s + x after s = 0: deps(s) becomes {s, x}, and the
\* visit emitted no record for s
C3_Witness ==
  /\ prog = "S" /\ JustVisited(3)
  /\ line_exec_count[3] = 1
  /\ global_deps["s"] = {"s", "x"}
  /\ RecordsWith(3, "s") = {}

\* C4 (propagation rule): after a visit of a line with non-empty assigned set A
\* and rhs set R, every name in A has the same dependency set in the visiting
\* invocation's store: cleanRhs united with the pre-visit dependency sets of
\* the names in cleanRhs, cleanRhs being R minus the builtin names; with R
\* empty the set is empty.
C4_Propagation ==
  [][LineVisit /\ assigned_by_line(Top.line) # {} =>
       LET R        == rhs_by_line(Top.line)
           cleanRhs == R \ Builtins
           expected == cleanRhs \cup UNION {get_current_deps_for(Top, n) : n \in cleanRhs}
       IN  /\ \A t \in assigned_by_line(Top.line) :
                t \in DOMAIN StoreAfter /\ StoreAfter[t] = expected
           /\ R = {} => \A t \in assigned_by_line(Top.line) : StoreAfter[t] = {}]_vars
\* x, y = len(s), s visited when deps(s) = {s, x}: both targets get {s, x}
C4_Witness ==
  /\ prog = "S" /\ JustVisited(4)
  /\ global_deps["x"] = {"s", "x"} /\ global_deps["y"] = {"s", "x"}


\* C5 (read resolution), as claimed: a read in a nested invocation returns the
\* invocation's local store entry if one exists, else the global store entry
\* if one exists, else the empty set; a read at module level returns the
\* global store entry or the empty set.  The records of a visit show what the
\* reads returned.
ReadClaimed(fr, n) ==
  IF is_module_level(fr)
    THEN Get(global_deps, n)
    ELSE IF n \in DOMAIN frame_deps[fr.fid]
           THEN frame_deps[fr.fid][n]
           ELSE Get(global_deps, n)
ReadAmended(fr, n) ==
  IF is_module_level(fr)
    THEN IF n \in gbound THEN Get(global_deps, n) ELSE {}
    ELSE IF n \in fr.locals
           THEN Get(frame_deps[fr.fid], n)
           ELSE IF n \in gbound THEN Get(global_deps, n) ELSE {}
C6_InvocationIsolation ==
  hpc = "enter" => frame_deps[Top.fid] = EmptyStore

\* C7 (emission rule): the records a visit appends are exactly one record
\* (line, execution, v, d) for each v in used \cup (assigned \cap rhs) and each
\* d in the pre-visit dependency set of v, and nothing else.
C7_Emission ==
  [][LineVisit =>
       LET l        == Top.line
           E        == used_by_line(l) \cup (assigned_by_line(l) \cap rhs_by_line(l))
           expected == UNION {{<<l, line_exec_count'[l], v, d>> :
                                 d \in get_current_deps_for(Top, v)} : v \in E}
       IN  /\ {Appended[i] : i \in 1..Len(Appended)} = expected
           /\ Len(Appended) = Cardinality(expected)]_vars
\* s += x visited when deps(s) = {s, x} and deps(x) = {s}: the target s, which
\* is not in used, is emitted
C7_Witness ==
  /\ prog = "S" /\ JustVisited(5)
  /\ "s" \notin used_by_line(5)
  /\ \E i \in 1..Len(records) : records[i] = <<5, 1, "s", "x">>
  /\ \E i \in 1..Len(records) : records[i] = <<5, 1, "x", "s">>

\* C8 (self-inclusion): after a visit of b = a (rhs is the single non-builtin
\* name a), deps(b) = deps_before(a) \cup {a}; after every visit of a line where
\* a non-builtin name s is both assigned and in rhs, deps(s) contains s.
C8_SelfInclusion ==
  [][LineVisit =>
       LET A == assigned_by_line(Top.line)
           R == rhs_by_line(Top.line)
       IN  /\ \A a \in Names \ Builtins :
                R = {a} => \A b \in A :
                  StoreAfter[b] = get_current_deps_for(Top, a) \cup {a}
           /\ \A n \in (A \cap R) \ Builtins : n \in StoreAfter[n]]_vars
\* second visit of s = s + x after x = s
C8_Witness ==
  /\ prog = "S" /\ JustVisited(3)
  /\ line_exec_count[3] = 2 /\ line_exec_count[2] = 1
  /\ global_deps["x"] = {"s"}
  /\ "s" \in global_deps["s"]

\* C9 (no-dependency invariant): after a visit of a line that assigns v with
\* an empty rhs set the store entry of v is empty, and a later read of that
\* variable emits no record with variable v until a visit of a line that
\* assigns it with a non-empty rhs set.
C9_NoDependency ==
  [][LineVisit =>
       LET l == Top.line
       IN  /\ rhs_by_line(l) = {} => \A v \in assigned_by_line(l) : StoreAfter[v] = {}
           /\ \A v \in used_by_line(l) \cup (assigned_by_line(l) \cap rhs_by_line(l)) :
                <<Scope(Top, v), v>> \in literal => DepsEmitted(v) = {}]_vars

\* C10 (per-line execution counters): every counter of an Analyzer starts at
\* 0; a visit of line L adds exactly 1 to L's counter and leaves the others
\* unchanged; no other step changes a counter or appends a record; the
\* execution field of every record of a visit is the new counter value of its
\* line.
C10_Counters ==
  /\ \A l \in LineNos : line_exec_count[l] = 0
  /\ [][/\ LineVisit =>
            /\ line_exec_count' = [line_exec_count EXCEPT ![Top.line] = @ + 1]
            /\ \A i \in 1..Len(Appended) :
                 Appended[i][1] = Top.line /\ Appended[i][2] = line_exec_count'[Top.line]
        /\ NewAnalyzer => \A l \in LineNos : line_exec_count'[l] = 0
        /\ ~LineVisit /\ ~NewAnalyzer =>
            line_exec_count' = line_exec_count /\ records' = records]_vars
\* the second invocation of g visits line 2: execution 2
C10_Witness ==
  /\ prog = "G" /\ JustVisited(2)
  /\ line_exec_count[2] = 2 /\ line_exec_count[3] = 0 /\ line_exec_count[6] = 2
  /\ records = << <<2, 1, "v", "a">>, <<2, 2, "v", "a">> >>

\* every scope store: the global store and the store of each frame identity
AllStores == {global_deps} \cup {frame_deps[f] : f \in FrameIds}
\* the names some line of the analysed program assigns
AssignedSomewhere == UNION {assigned_by_line(l) : l \in LineNos}

\* C11 as stated (builtin filtering): a key of the host builtins is never the
\* dependency field of a record, never the variable field of a record, and
\* never has a non-empty entry in a scope store, also when the program assigns
\* to a variable of that name and then reads it.
C11_Original ==
  /\ \A i \in 1..Len(records) :
       records[i][3] \notin Builtins /\ records[i][4] \notin Builtins
  /\ \A st \in AllStores : \A n \in Builtins : Get(st, n) = {}

\* C11 (builtin filtering, amended): a key of the host builtins is never the
\* dependency field of a record and never a member of a store entry; a builtin
\* name that no line of the program assigns is never the variable field of a
\* record and has no store entry. (A variable of the program that carries a
\* builtin's name is tracked as a target like any other.)
C11_BuiltinFiltering ==
  /\ \A i \in 1..Len(records) : records[i][4] \notin Builtins
  /\ \A st \in AllStores : \A k \in DOMAIN st : st[k] \cap Builtins = {}
  /\ \A n \in Builtins \ AssignedSomewhere :
       /\ \A i \in 1..Len(records) : records[i][3] # n
       /\ \A st \in AllStores : n \notin DOMAIN st
\* b = len has been visited while len is a variable of the program: b got no
\* dependency at all
C11_Witness ==
  /\ prog = "L" /\ JustVisited(3)
  /\ "len" \in gbound
  /\ global_deps["len"] = {"a"} /\ global_deps["b"] = {}
  /\ records = << <<3, 1, "len", "a">> >>

\* C12 (target-program failure keeps output): when the analysed program has
\* raised, what the caller receives is a list that holds every record
\* appended before the failure, in the order of appending, and nothing else.
C12_FailureKeepsOutput ==
  (phase = "raised" /\ outcome.kind # "none") =>
    /\ outcome.kind = "list"
    /\ Len(outcome.list) = Len(records)
    /\ \A i \in 1..Len(records) :
         /\ outcome.list[i].line = records[i][1]
         /\ outcome.list[i].execution = records[i][2]
         /\ outcome.list[i].variable = records[i][3]
         /\ outcome.list[i].dependency = records[i][4]
\* c = y raised NameError after b = len had appended a record
C12_Witness ==
  /\ prog = "L" /\ phase = "raised"
  /\ records = << <<3, 1, "len", "a">> >>
  /\ outcome.kind = "list" /\ Len(outcome.list) = 1
  /\ outcome.list[1] = [line |-> 3, execution |-> 1, variable |-> "len",
                         dependency |-> "a"]

\* C13 (parse failure is fatal and early): for a text that does not parse, no
\* line event is ever delivered, no trace function is installed, no record,
\* counter or store entry exists, and the caller receives a failure with an
\* error, never a list.
C13_ParseFailure ==
  ParseFails(prog) =>
    /\ phase \in {"new", "failed"}
    /\ steps = 0 /\ ~pending /\ hpc = "start" /\ ~tracing
    /\ records = <<>> /\ global_deps = EmptyStore
    /\ outcome.kind \in {"none", "rejected"}
    /\ first.kind \in {"none", "rejected"}
    /\ phase = "failed" => outcome.kind = "rejected" /\ outcome.error # ""
C13_Witness ==
  /\ prog = "X" /\ phase = "failed"
  /\ outcome = [kind |-> "rejected", list |-> << >>, error |-> "SyntaxError"]
  /\ ~tracing /\ steps = 0

\* C14 (hook-internal failure is recovered locally): a line event whose
\* handling raises inside the hook appends no record, leaves the analysed
\* program running where it was, and leaves the trace function installed; the
\* trace function is installed for as long as the program runs, so every
\* later line event is handled.
C14_HookFailure ==
  [][/\ nfaults' = nfaults + 1 =>
          /\ records' = records
          /\ phase' = "running" /\ stack' = stack /\ hpc' = hpc
          /\ tracing'
     /\ phase' = "running" => tracing']_vars
\* the handling of the line event of a = 1 raised; the events of lines 2 and
\* 3 were handled and line 3 appended its record
C14_Witness ==
  /\ prog = "A" /\ nfaults = 1 /\ phase = "done"
  /\ line_exec_count = <<0, 1, 1>>
  /\ records = << <<3, 1, "b", "a">> >>

\* C15 (caller-visible outcomes): every analysis ends for the caller in
\* exactly one of: a complete list (the program ended normally), a partial
\* list paired with an error description (the program raised), or a
\* parse-time failure; a run whose program raised differs for the caller
\* from one that completed.
C15_Outcomes ==
  outcome.kind # "none" =>
    \/ phase = "done"   /\ outcome.kind = "list" /\ outcome.error = ""
    \/ phase = "raised" /\ outcome.kind = "list" /\ outcome.error # ""
    \/ phase = "failed" /\ outcome.kind = "rejected"

\* C16 (determinism across runs): when the same text has been analysed twice,
\* each time with a new Analyzer, the caller has received the same outcome
\* twice: the same records in the same order.
C16_Determinism ==
  (first.kind # "none" /\ outcome.kind # "none") => outcome = first

\* the position of a name in code-point order
Rank(n) == CHOOSE i \in 1..Len(NameOrder) : NameOrder[i] = n
\* record r comes strictly before record q by variable, then by dependency
RecordBefore(r, q) ==
  \/ Rank(r[3]) < Rank(q[3])
  \/ r[3] = q[3] /\ Rank(r[4]) < Rank(q[4])

\* C17 (record order): the record list of an analysis only grows at its end,
\* so the records of an earlier visit precede those of every later visit; the
\* records one visit appends are in strictly ascending order by variable and,
\* for equal variable, by dependency.
C17_RecordOrder ==
  [][~NewAnalyzer =>
       /\ IsPrefix(records, records')
       /\ \A i, j \in 1..Len(Appended) :
            i < j => RecordBefore(Appended[i], Appended[j])]_vars
\* the second visit of s = s + x appended three records, for s and for x
C17_Witness ==
  /\ prog = "S" /\ JustVisited(3)
  /\ records = << <<3, 1, "x", "s">>,
                  <<3, 2, "s", "s">>, <<3, 2, "s", "x">>, <<3, 2, "x", "s">> >>

\* the augmented assignments on line l
AugNodes(l) == {n \in NodesOf(Lines[l]) : n.type = "AugAssign"}

AnnNodes(l) == {n \in NodesOf(Lines[l]) : n.type = "AnnAssign" /\ n.hasValue}
\* what a visit of x: T = e does for the target and the value
AnnTargetAndValue(n) ==
  /\ n.tstore \subseteq assigned_by_line(Top.line)
  /\ rhs_by_line(Top.line) = n.value
  /\ \A x \in n.tstore :
       x \in DOMAIN StoreAfter /\ StoreAfter[x] = union_deps(Top, n.value)

\* C19 as stated (annotated assignment): for a line x: T = e, x is in
\* assigned and rhs is exactly the names read in e; a name that occurs only
\* in the annotation is not added to the entry of x, and no record of a visit
\* of the line has that name as its variable.
C19_Original ==
  [][LineVisit =>
       \A n \in AnnNodes(Top.line) :
         /\ AnnTargetAndValue(n)
         /\ \A t \in n.ann \ n.value :
              \A i \in 1..Len(Appended) : Appended[i][3] # t]_vars

\* C19 (annotated assignment, amended): for a line x: T = e, x is in assigned
\* and rhs is exactly the names read in e, so the entry of x is computed from
\* the names of e alone; a name that occurs only in the annotation is a name
\* read on the line: it is in used, and a visit appends one record with that
\* name as variable for each dependency the name has before the visit.
C19_AnnAssign ==
  [][LineVisit =>
       \A n \in AnnNodes(Top.line) :
         /\ AnnTargetAndValue(n)
         /\ \A t \in n.ann \ n.value :
              /\ t \in used_by_line(Top.line) /\ t \notin rhs_by_line(Top.line)
              /\ DepsEmitted(t) = get_current_deps_for(Top, t)]_vars
\* x: T = a has been visited while T depends on a
C19_Witness ==
  /\ prog = "T" /\ JustVisited(3)
  /\ global_deps["T"] = {"a"} /\ global_deps["x"] = {"a"}
  /\ records = << <<3, 1, "T", "a">> >>

\* entry k of the store is new or has a new value after the step
Written(st, st2, k) == k \notin DOMAIN st \/ st2[k] # st[k]
\* the step keeps every entry of st and writes entries only as a visit of a
\* line that assigns them
StoreStep(st, st2) ==
  /\ DOMAIN st \subseteq DOMAIN st2
  /\ \A k \in DOMAIN st2 :
       Written(st, st2, k) => LineVisit /\ k \in assigned_by_line(Top.line)

\* C20 (store lifecycle): within one analysis, an entry of the global store
\* or of a local store is created or overwritten only by a visit of a line
\* whose assigned set holds its name; a visit of a line with an empty assigned
\* set leaves all stores unchanged; no step removes an entry.
C20_StoreLifecycle ==
  [][~NewAnalyzer =>
       /\ StoreStep(global_deps, global_deps')
       /\ \A f \in FrameIds : StoreStep(frame_deps[f], frame_deps'[f])
       /\ (LineVisit /\ assigned_by_line(Top.line) = {}) =>
            global_deps' = global_deps /\ frame_deps' = frame_deps]_vars
\* print(x) has been visited after s and x got their entries; s += x had
\* overwritten the entry of s
C20_Witness ==
  /\ prog = "S" /\ JustVisited(6)
  /\ DOMAIN global_deps = {"s", "x"}
  /\ global_deps["s"] = {"s", "x"} /\ global_deps["x"] = {"s"}
  /\ line_exec_count[5] = 1

\* the step in which the hook handles an event that is not a line event of
\* the analysed source
OtherEventHandled ==
  pending /\ ~pending' /\ (ev.file # "src" \/ ev.kind # "line")

\* C21 (foreign events are ignored): the handling of an event whose frame
\* belongs to another file, or whose kind is not "line", leaves the scope
\* stores, all line counters and the record list unchanged.
C21_ForeignIgnored ==
  [][OtherEventHandled =>
       /\ global_deps' = global_deps /\ frame_deps' = frame_deps
       /\ line_exec_count' = line_exec_count
       /\ records' = records]_vars
\* a line event of another file has been handled after line 3 of scenario A
\* had appended its record
C21_Witness ==
  /\ prog = "A" /\ ~pending /\ phase = "running"
  /\ ev = [kind |-> "line", file |-> "other"]
  /\ records = << <<3, 1, "b", "a">> >>
  /\ line_exec_count = <<1, 1, 1>>

\* the line has an entry in all_vars_by_line
has_classification(l) == l \in DOMAIN collector.all

\* C22 as stated (unclassified line): a visit of a line of the analysed
\* source that has no classification entry changes nothing: the scope stores,
\* every line counter (that line's too) and the record list are as before.
C22_Original ==
  [][(LineVisit /\ ~has_classification(Top.line)) =>
       /\ global_deps' = global_deps /\ frame_deps' = frame_deps
       /\ line_exec_count' = line_exec_count
       /\ records' = records]_vars

\* C22 (unclassified line, amended): a visit of a line that has no
\* classification entry leaves the scope stores and the record list
\* unchanged and counts as an execution of the line: the line's counter grows
\* by 1, the other counters are unchanged.
C22_UnclassifiedLine ==
  [][(LineVisit /\ ~has_classification(Top.line)) =>
       /\ global_deps' = global_deps /\ frame_deps' = frame_deps
       /\ records' = records
       /\ line_exec_count' = [line_exec_count EXCEPT ![Top.line] = @ + 1]]_vars
\* the def line of f has been visited
C22_Witness ==
  /\ prog = "F" /\ JustVisited(1)
  /\ ~has_classification(1)
  /\ line_exec_count = <<1, 0, 0, 0, 0, 0, 0>>
  /\ records = <<>> /\ global_deps = EmptyStore

\* all = used | assigned on every line that has an entry, in tables c
ClassificationOK(c) ==
  /\ DOMAIN c.all = DOMAIN c.used \cup DOMAIN c.assigned
  /\ \A l \in DOMAIN c.all : c.all[l] = Get(c.used, l) \cup Get(c.assigned, l)

\* C23 (classification invariant): on every line that has a classification,
\* all = used | assigned; the tables are built when the Analyzer is
\* constructed, before the program runs, and no later step of the analysis, a
\* line event in particular, changes any of the four per-line sets.
C23_Classification ==
  [][/\ ClassificationOK(collector')
     /\ collector' # collector => (phase = "new" \/ NewAnalyzer)
     /\ LineVisit => collector' = collector]_vars
\* the accumulation program has run to its end with its tables in place
C23_Witness ==
  /\ prog = "S" /\ phase = "done" /\ line_exec_count[5] = 1
  /\ DOMAIN collector.all = 1..6
  /\ collector.all[5] = {"s", "x"} /\ collector.used[5] = {"x"}
  /\ collector.assigned[5] = {"s"} /\ collector.rhs[5] = {"s", "x"}

\* C25 (module/local separation of writes): a visit in a nested invocation
\* changes no store but that of the visiting frame's identity, and never the
\* module-level store; a visit in the module-level invocation changes no
\* store but the module-level one.
C25_WriteSeparation ==
  [][LineVisit =>
       IF is_module_level(Top)
         THEN frame_deps' = frame_deps
         ELSE /\ global_deps' = global_deps
              /\ \A f \in FrameIds \ {Top.fid} : frame_deps'[f] = frame_deps[f]]_vars
\* v = a has been visited inside f: the frame's store has w and v, the
\* module-level store has a only
C25_Witness ==
  /\ prog = "F" /\ JustVisited(3) /\ ~is_module_level(Top)
  /\ DOMAIN frame_deps[Top.fid] = {"v", "w"}
  /\ frame_deps[Top.fid]["v"] = {"a"} /\ frame_deps[Top.fid]["w"] = {"v"}
  /\ \A f \in FrameIds \ {Top.fid} : frame_deps[f] = EmptyStore
  /\ global_deps = [k \in {"a"} |-> {}]

\* the annotated declarations without a value on line l
DeclNodes(l) == {n \in NodesOf(Lines[l]) : n.type = "AnnAssign" /\ ~n.hasValue}
\* the entry of v in the store the visiting frame writes to, before the step
DepsBefore(v) ==
  IF is_module_level(Top) THEN Get(global_deps, v) ELSE Get(frame_deps[Top.fid], v)

\* C26 (bare annotation leaves dependencies alone): for a line x: T, x is not
\* in the line's assigned set, and the entry of x after a visit of the line
\* is what it was before the visit.
C26_BareAnnotation ==
  [][LineVisit =>
       \A n \in DeclNodes(Top.line) : \A x \in n.tstore :
         /\ x \notin assigned_by_line(Top.line)
         /\ Get(StoreAfter, x) = DepsBefore(x)]_vars

\* ------------------------------------------------------------------ C24
\* the view a digit key selects
ViewOfKey(k) ==
  CASE k = "1" -> "full"
    [] k = "2" -> "scoped"
    [] k = "3" -> "dataflow"

\* C24: a keydown of '1', '2' or '3' whose target is not the code textarea
\* sets the view to full, scoped or dataflow respectively; a keydown whose
\* target is the textarea, and a keydown of any other key, leaves the view
\* as it was
C24_KeyboardViews ==
  [][keyed' # NoKey =>
       view' = IF keyed'.target # "TEXTAREA" /\ keyed'.key \in {"1", "2", "3"}
                 THEN ViewOfKey(keyed'.key)
                 ELSE view]_vars

\* '3' pressed outside the textarea has just switched the page to the
\* data-flow view
C24_Witness ==
  /\ keyed = [key |-> "3", target |-> "BODY"]
  /\ view = "dataflow"
  /\ status = "ok"

\* ------------------------------------------------------------------ C28
\* C28: in every settled state where the view is dataflow, the status is ok
\* and no analysis is in flight, dataFlowResults is the analysis result of
\* the text of the most recent successful run
C28_FreshResults ==
  (view = "dataflow" /\ status = "ok" /\ analyses = << >>)
    => dataFlowResults = AnalysisOf(lastExecutedCode)

\* ------------------------------------------------------------------ C29
\* C29: in every settled state where the view is not dataflow,
\* dataFlowResults is empty and dataFlowLoading is false
C29_ClearedOutsideDataflow ==
  view # "dataflow" => (dataFlowResults = << >> /\ dataFlowLoading = FALSE)

\* ------------------------------------------------------------------ C30
\* the step in which run() resumes after an execution that failed and sets
\* the error message
RunFailed == runs # << >> /\ runs' = Tail(runs) /\ error = "" /\ error' = "err"
\* the user edits the text or starts another run
EditOrRun == code' # code \/ Len(runs') > Len(runs)

\* C30: after a run ends with an error the status is error, and it stays
\* error until the user next edits the text or starts another run
C30_ErrorPersists ==
  [][/\ RunFailed => status' = "error"
     /\ (status = "error" /\ ~EditOrRun) => status' = "error"]_vars

\* ------------------------------------------------------------------ C27
\* C27: for every line and every i >= 1, the i-th row of the line's
\* projection box was captured on the visit of the line that the analyzer
\* numbers execution i (the analyzer numbers the visits of a line 1, 2, ...)
C27_RowAlignment ==
  outcome.kind = "rows" =>
    \A l \in LineNos : \A i \in 1..Len(BoxRows(l)) :
      BoxRows(l)[i].visit = RowExecution(i)

\* ------------------------------------------------------------------ C31
\* C31: in every reachable state where the status is modified, the text in
\* the editor differs from lastExecutedCode
C31_ModifiedMeansDifferent ==
  status = "modified" => code # lastExecutedCode

\* ------------------------------------------------------------------ C35
\* the run() call number k has started and not completed
InFlight(k) == \E i \in 1..Len(calls) : calls[i].id = k

\* C35: if every awaited call eventually resolves or rejects, every run()
\* call eventually completes, and once no run is in flight the status is
\* not running
C35_EveryRunEnds ==
  /\ \A k \in 1..MaxCalls : InFlight(k) ~> ~InFlight(k)
  /\ [](calls = << >> => status # "running")

\* both run() calls have completed, the second one successfully
C35_Witness ==
  /\ calls = << >> /\ ncalls = 2
  /\ completed.id = 2 /\ completed.ok
  /\ status = "ok"

\* ------------------------------------------------------------------ C32
\* UnifiedCodeEditor: the text whose rows the overlay of a line shows; it
\* shows a projection box only when the status is ok
getProjectionBox == IF status = "ok" THEN boxes ELSE ""

\* C32: execution data is shown only when the status is ok, and whenever
\* the status is ok the stored boxes were produced by running exactly the
\* text that is in the editor
C32_ShownDataUpToDate ==
  /\ status # "ok" => getProjectionBox = ""
  /\ status = "ok" => boxes = code

\* ------------------------------------------------------------------ C33
\* C33: whenever at least one run() call has started and not completed,
\* the status is running
C33_RunningWhileInFlight ==
  calls # << >> => status = "running"

\* ------------------------------------------------------------------ C34
\* C34: the boxes, the output and lastExecutedCode that a successful run()
\* call stores all come from executing the text the call was started with
C34_OwnResults ==
  completed.ok => (completed.boxes = completed.code /\ completed.stdout = completed.code)

\* ------------------------------------------------------------------ C36
\* C36 as stated: the interpreter load is started at most once and every
\* ensurePyodide() call returns the same promise
C36_SamePromise ==
  /\ loads <= 1
  /\ \A i, j \in 1..Len(calls) : calls[i].ret = calls[j].ret

\* C36: for any number of ensurePyodide() calls, sequential or overlapping,
\* the interpreter load is started at most once and the promise every call
\* returns settles as the one stored promise; a call made after the load
\* has failed settles as that same rejected promise and starts no new load
C36_LoadedOnce ==
  /\ [](/\ loads <= 1
        /\ pyodidePromise.id = loads
        /\ \A i \in 1..Len(calls) : calls[i].awaits = pyodidePromise.id)
  /\ [][pyodidePromise.state = "rejected" =>
          /\ pyodidePromise' = pyodidePromise
          /\ loads' = loads
          /\ \A i \in 1..Len(calls') :
               calls'[i].late => calls'[i].awaits = pyodidePromise.id]_vars

\* a call made after the load has failed is in flight next to nothing
\* else: the earlier call has ended in the catch clause
C36_Witness ==
  /\ loads = 1 /\ pyodidePromise.state = "rejected"
  /\ \E i \in 1..Len(calls) : calls[i].late /\ calls[i].id = 2
  /\ completed.id = 1 /\ ~completed.ok

\* ------------------------------------------------------------------ C37
\* C37: in every reachable state the record list contains no two equal
\* (line, execution, variable, dependency) tuples, and for each line the
\* execution values of its records are non-decreasing along the list and
\* never exceed the number of visits of that line so far
C37_RecordsDistinct ==
  /\ \A i, j \in 1..Len(records) : i < j => records[i] # records[j]
  /\ \A i, j \in 1..Len(records) :
       (i < j /\ records[i][1] = records[j][1]) => records[i][2] <= records[j][2]
  /\ \A i \in 1..Len(records) :
       records[i][2] \in 1..line_exec_count[records[i][1]]

\* the loop body s = s + x has been visited twice: the second visit emits
\* the same variables and dependencies as far as the first did, with
\* execution 2
C37_Witness ==
  /\ \E i, j \in 1..Len(records) :
       /\ i < j /\ records[i][1] = records[j][1]
       /\ records[i][2] = 1 /\ records[j][2] = 2
       /\ records[i][3] = records[j][3] /\ records[i][4] = records[j][4]
  /\ \E l \in LineNos : line_exec_count[l] >= 2

\* ------------------------------------------------------------------ C38
\* the lines the hook has visited in this analysis
VisitedLines == {l \in LineNos : line_exec_count[l] >= 1}
\* a non-builtin name of the rhs set of a classified line visited so far
ProgramName(n) ==
  /\ n \notin Builtins
  /\ \E l \in VisitedLines : has_classification(l) /\ n \in rhs_by_line(l)

\* C38: in every reachable state, every name contained in any dependency
\* set of either store, and hence the dependency field of every record, is
\* a non-builtin name that belongs to the rhs set of some classified line
\* visited earlier in the run; the variable field of every record belongs
\* to used \cup (assigned \cap rhs) of the record's own line
C38_DependencyNames ==
  /\ \A st \in AllStores : \A k \in DOMAIN st : \A n \in st[k] : ProgramName(n)
  /\ \A i \in 1..Len(records) :
       /\ ProgramName(records[i][4])
       /\ records[i][3] \in used_by_line(records[i][1]) \cup
             (assigned_by_line(records[i][1]) \cap rhs_by_line(records[i][1]))

\* a record lists a dependency that its own line does not name: it reached
\* the variable's entry through an assignment on an earlier line, in a
\* nested frame's store
C38_Witness ==
  /\ \E i \in 1..Len(records) :
       records[i][4] \notin rhs_by_line(records[i][1])
  /\ \E f \in FrameIds : \E k \in DOMAIN frame_deps[f] : frame_deps[f][k] # {}
  /\ \E k \in DOMAIN global_deps : global_deps[k] # {}

\* ------------------------------------------------------------------ C39
\* the largest count whose decimal text is checked
MaxCount == 110
\* splitting the text of record r on commas and reading the four parts
Recovered(r) ==
  LET parts == split(f_string(r), ",")
  IN  IF Len(parts) = 4 /\ IsDecimal(parts[1]) /\ IsDecimal(parts[2])
        THEN << int(parts[1]), int(parts[2]), NameOf(parts[3]), NameOf(parts[4]) >>
        ELSE << >>

\* C39: the list returned by runDataFlowAnalysis has exactly one entry per
\* record the tracer appended, in the same order and with the same four
\* field values; encoding a record as the text
\* line,execution,variable,dependency and splitting it on commas recovers
\* the record and drops none (the second conjunct states the round trip
\* for line numbers and counts of up to three digits, which the analysed
\* programs do not reach; it does not depend on the state and is evaluated
\* in the states before an analysis starts)
C39_NoRecordLost ==
  /\ \A i \in 1..Len(records) : Recovered(records[i]) = records[i]
  /\ phase = "new" =>
       \A n \in 0..MaxCount :
         /\ IsDecimal(str(n)) /\ int(str(n)) = n
         /\ \A v \in {"len", "x"} :
              Recovered(<<n, MaxCount - n, v, "sum">>) = <<n, MaxCount - n, v, "sum">>
  /\ outcome.kind = "list" =>
       /\ Len(outcome.list) = Len(records)
       /\ \A i \in 1..Len(records) :
            outcome.list[i] = [line |-> records[i][1], execution |-> records[i][2],
                               variable |-> records[i][3], dependency |-> records[i][4]]

\* the analysis of a program with a loop has returned: several records,
\* two of them of the same line, and one entry for each
C39_Witness ==
  /\ outcome.kind = "list" /\ Len(records) >= 2
  /\ Len(outcome.list) = Len(records)
  /\ \E i, j \in 1..Len(records) : i # j /\ records[i][1] = records[j][1]
  /\ split(f_string(records[1]), ",") =
       << str(records[1][1]), str(records[1][2]), Chars(records[1][3]), Chars(records[1][4]) >>
====
